---- MODULE Spec2Model ----
(***************************************************************************)
(* The Lasso breast-cancer notebook as a state machine.                    *)
(*                                                                         *)
(* The notebook is a linear sequence of cells: load the dataset, split it, *)
(* grid-search the regularization strength C under repeated k-fold cross   *)
(* validation, fit the full-feature L1 model and keep the features with a  *)
(* nonzero coefficient, refit on the kept columns, report accuracies.      *)
(*                                                                         *)
(* Abstractions (all sizes are the named bounds below):                    *)
(*  - a feature row of X is carried as its row label (the pandas index);   *)
(*  - feature names are 1..NFeatures, the label column "target" is 0;      *)
(*  - C is counted in hundredths: the grid is 1..GridSize (0.01 steps),    *)
(*    the library default C=1.0 is 100;                                    *)
(*  - a coefficient is an integer multiple of the smallest nonzero         *)
(*    magnitude, so 1 and -1 are the arbitrarily small nonzero values;     *)
(*  - the liblinear solver is given no random_state, so it seeds itself    *)
(*    from the process-global generator: what a fit returns (coefficients, *)
(*    predictions, fold scores) is a choice among the possible outcomes;   *)
(*  - the seeded generators return fixed streams, the same in every run:   *)
(*    rngStream for the split (random_state=123), cvStream for the cross   *)
(*    validation (random_state=321), one shuffle per repeat;               *)
(*  - the specifications of a whole run carry one repeat of the cross      *)
(*    validation; SpecCV, which stops when the splits are drawn, carries   *)
(*    NRepeats of them;                                                    *)
(*  - what the cells show is carried as the set of the names of the items  *)
(*    shown (output), a warning or a traceback by its category;            *)
(*  - src/unnamed/part_000 is the notebook modelled by Spec; the cells in  *)
(*    which src/lasso_breast_cancer.ipynb differs are those of SpecIpynb.  *)
(***************************************************************************)
EXTENDS Integers, Sequences, FiniteSets, TLC

\* ------------------------------------------------------------------ bounds
NSamples == 3      \* rows of the dataset (569 in the bundled table)
NFeatures == 2     \* feature columns (30 in the bundled table)
GridSize == 2      \* grid values 0.01 .. GridSize/100 (99 in the notebook)
NSplits == 2       \* folds of one repeat of the cross validation
                   \* (n_splits=10 in the notebook)
NRepeats == 2      \* repeats of the cross validation when its fold structure
                   \* is examined (n_repeats=3 in the notebook)
MaxWorkers == 2    \* cores that n_jobs=-1 may resolve to
MaxRuns == 2       \* runs of the notebook that are compared

\* ------------------------------------------------------- program constants
TestPercent == 20  \* test_size=0.2
SplitSeed == 123   \* random_state of train_test_split
DefaultC == 100    \* LogisticRegression() built without C: C = 1.0
TargetName == 0    \* the column Y = pd.Series(..., name="target")
MaxIter == 1000    \* max_iter=1000: the iteration cap of the solver

Labels == {0, 1}
CoefValues == {-1, 0, 1}
FoldScores == {-1, 0}   \* neg_mean_absolute_error of one fold, in fold units

Stages == <<"load", "split", "search", "select", "refit", "evaluate">>

VARIABLES
    pc,                \* the stage to run next, or "done" / "failed"
    run,               \* number of the current run of the notebook
    provider,          \* label tables the dataset provider may return
    rngStream,         \* permutation drawn by the generator seeded with 123
    cvStream,          \* permutations drawn by the generator seeded with 321,
                       \* one per repeat of the cross validation
    Y,                 \* the label of every row
    x_train, x_test,   \* row labels of the two partitions, in order
    y_train, y_test,   \* [row, label] entries of the two partitions
    estimators,        \* every LogisticRegression instance built so far
    lasso_model,       \* the instance the name lasso_model is bound to
    search,            \* the GridSearchCV object
    results,           \* what search.fit returned
    feature_importance,
    selected_,
    x_train_selected, x_test_selected,
    predicted_y,       \* predictions on the two restricted tables
    train_accuracy, test_accuracy,
    output,            \* names of the items the cells have shown so far
    started, finished, \* how often each stage was entered / was completed
    prev               \* outputs of the previous run

vars == <<pc, run, provider, rngStream, cvStream, Y, x_train, x_test, y_train,
          y_test, estimators, lasso_model, search, results, feature_importance,
          selected_, x_train_selected, x_test_selected, predicted_y,
          train_accuracy, test_accuracy, output, started, finished, prev>>

\* ----------------------------------------------------------------- helpers
Range(s) == {s[i] : i \in 1..Len(s)}

AllPermutations(n) == {p \in [1..n -> 1..n] : \A i, j \in 1..n : p[i] = p[j] => i = j}

RECURSIVE Sum(_, _)
Sum(f, S) == IF S = {} THEN 0
             ELSE LET x == CHOOSE y \in S : TRUE IN f[x] + Sum(f, S \ {x})

Min(S) == CHOOSE x \in S : \A y \in S : x <= y

\* ------------------------------------------------------------ the dataset
\* X.columns: the feature names, in column order.
FeatureNames == [j \in 1..NFeatures |-> j]

\* data = pd.concat([X, Y], axis=1): the feature columns followed by "target".
DataColumns == FeatureNames \o <<TargetName>>

\* X: one row per sample, carried as its row label.
X == [i \in 1..NSamples |-> i]

\* Every label table over the rows.
LabelTables == [1..NSamples -> Labels]

\* The bundled table: one fixed labelling with both classes.
BundledLabels == [i \in 1..NSamples |-> i % 2]

\* ------------------------------------------------------------- the splitter
\* n_test = ceil(test_size * n_samples).
NTest(n) == (TestPercent * n + 99) \div 100

\* n_train = n_samples - n_test (no train_size given).
NTrain(n) == n - NTest(n)

\* The permutations rng.permutation(n) may return: one fixed stream for an
\* integer random_state.
SplitPermsUnseeded(random_state) == AllPermutations(NSamples)
SplitPerms(random_state) == {rngStream}

\* ind_test = permutation[:n_test].
TestIndices(p) == [k \in 1..NTest(NSamples) |-> p[k]]

\* ind_train = permutation[n_test:n_test + n_train].
TrainIndices(p) == [k \in 1..NTrain(NSamples) |-> p[NTest(NSamples) + k]]

\* Indexing of the feature table by a list of row positions.
IndexRows(idx) == [k \in 1..Len(idx) |-> X[idx[k]]]

\* Indexing of the label series by a list of row positions: each entry keeps
\* its row label.
IndexLabelsShifted(labels, idx) ==
    [k \in 1..Len(idx) |-> [row |-> idx[k], label |-> labels[idx[(k % Len(idx)) + 1]]]]
IndexLabels(labels, idx) ==
    [k \in 1..Len(idx) |-> [row |-> idx[k], label |-> labels[idx[k]]]]

\* ------------------------------------------------------------ stage order
StageIndex(s) == CHOOSE i \in 1..Len(Stages) : Stages[i] = s

\* The cell that follows a stage's last cell; "done" after the last one.
NextStageRetry(s) ==
    IF s = "select" THEN "search"
    ELSE IF StageIndex(s) = Len(Stages) THEN "done" ELSE Stages[StageIndex(s) + 1]
NextStage(s) ==
    IF StageIndex(s) = Len(Stages) THEN "done" ELSE Stages[StageIndex(s) + 1]

Enter(s) == started' = [started EXCEPT ![s] = @ + 1]
Leave(s) == finished' = [finished EXCEPT ![s] = @ + 1]

\* ------------------------------------------------------------ cell outputs
\* print(...) or the value of a cell's last expression: the items appear
\* under the cell.
Show(items) == output' = output \cup items

\* warnings.filterwarnings("ignore") in the first cell: the action of the one
\* filter in force when the later cells run, matching every category.
WarningsFilter == "ignore"

\* warnings.warn(message, category) in the notebook's process: what, if
\* anything, is shown.
Warned(category) == IF WarningsFilter = "ignore" THEN {} ELSE {category}

\* ------------------------------------------------------------ initial state
NoResults == [fitted |-> FALSE, mean_test_score |-> <<>>, best_index |-> 0,
              best_params |-> 0, best_score |-> <<0, 1>>, best_estimator |-> 0]

NoSearch == [estimator |-> 0, n_jobs |-> 0, cv |-> <<>>, out |-> <<>>]

NoAccuracy == <<0, 0>>

NoPredictions == [model |-> 0, train |-> <<>>, test |-> <<>>]

NoPrev == [run |-> 0, pc |-> "load", Y |-> <<>>, x_train |-> <<>>, x_test |-> <<>>,
           best_params |-> 0, best_score |-> <<0, 1>>, coef |-> <<>>,
           train_accuracy |-> NoAccuracy, test_accuracy |-> NoAccuracy]

Fresh ==
    /\ pc = "load"
    /\ Y = <<>>
    /\ x_train = <<>> /\ x_test = <<>>
    /\ y_train = <<>> /\ y_test = <<>>
    /\ estimators = <<>>
    /\ lasso_model = 0
    /\ search = NoSearch
    /\ results = NoResults
    /\ feature_importance = <<>>
    /\ selected_ = <<>>
    /\ x_train_selected = [rows |-> <<>>, cols |-> <<>>]
    /\ x_test_selected = [rows |-> <<>>, cols |-> <<>>]
    /\ predicted_y = NoPredictions
    /\ train_accuracy = NoAccuracy /\ test_accuracy = NoAccuracy
    /\ output = {}
    /\ started = [s \in Range(Stages) |-> 0]
    /\ finished = [s \in Range(Stages) |-> 0]

\* One run on the bundled table.
Init ==
    /\ Fresh
    /\ run = 1
    /\ provider = {BundledLabels}
    /\ rngStream = [i \in 1..NSamples |-> NSamples + 1 - i]
    /\ cvStream = <<[i \in 1..NTrain(NSamples) |-> NTrain(NSamples) + 1 - i]>>
    /\ prev = NoPrev

\* The tables that agree with the bundled one on the rows the split puts in
\* the training partition: only the labels of the test rows vary.
InitTest ==
    /\ Fresh
    /\ run = 1
    /\ rngStream = [i \in 1..NSamples |-> NSamples + 1 - i]
    /\ provider = {table \in LabelTables :
                      \A i \in Range(IndexRows(TrainIndices(rngStream))) :
                          table[i] = BundledLabels[i]}
    /\ cvStream = <<[i \in 1..NTrain(NSamples) |-> NTrain(NSamples) + 1 - i]>>
    /\ prev = NoPrev

\* Any label table; any shuffles of the generator seeded with 321, one per
\* repeat.
InitCV ==
    /\ Fresh
    /\ run = 1
    /\ provider = LabelTables
    /\ rngStream = [i \in 1..NSamples |-> NSamples + 1 - i]
    /\ cvStream \in [1..NRepeats -> AllPermutations(NTrain(NSamples))]
    /\ prev = NoPrev

\* Any label table, any stream of the seeded generator.
InitSplit ==
    /\ Fresh
    /\ run = 1
    /\ provider = LabelTables
    /\ rngStream \in AllPermutations(NSamples)
    /\ cvStream = <<[i \in 1..NTrain(NSamples) |-> i]>>
    /\ prev = NoPrev

\* ------------------------------------------------------------------- load
\* Cells 64e355f1, fccecd2f, 99203e97: load_breast_cancer(), X, Y, data.
Load ==
    /\ pc = "load"
    /\ \E table \in provider : Y' = table
    /\ Show({"Features"})
    /\ Enter("load") /\ Leave("load")
    /\ pc' = NextStage("load")
    /\ UNCHANGED <<run, provider, rngStream, cvStream, x_train, x_test, y_train, y_test,
                   estimators, lasso_model, search, results, feature_importance,
                   selected_, x_train_selected, x_test_selected, train_accuracy,
                   test_accuracy, prev, predicted_y>>

\* ------------------------------------------------------------------ split
\* Cell de0a3014: train_test_split(X, Y, test_size=0.2, random_state=123).
Split ==
    /\ pc = "split"
    /\ \E p \in SplitPerms(SplitSeed) :
          /\ x_train' = IndexRows(TrainIndices(p))
          /\ x_test' = IndexRows(TestIndices(p))
          /\ y_train' = IndexLabels(Y, TrainIndices(p))
          /\ y_test' = IndexLabels(Y, TestIndices(p))
    /\ Enter("split") /\ Leave("split")
    /\ pc' = NextStage("split")
    /\ UNCHANGED <<run, provider, rngStream, cvStream, Y, estimators, lasso_model, search,
                   results, feature_importance, selected_, x_train_selected,
                   x_test_selected, train_accuracy, test_accuracy, prev,
                   predicted_y, output>>

\* ------------------------------------------------------------- estimators
\* LogisticRegression(C=c, penalty="l1", solver="liblinear", max_iter=1000),
\* not fitted yet.
NewEstimator(c) ==
    [C |-> c, fitted |-> FALSE, rows |-> <<>>, cols |-> <<>>, coef |-> <<>>, n_iter |-> 0]

\* estimator.fit(table, y): the instance keeps its C and now holds one
\* coefficient per column of the table.
Fitted(est, rows, cols, coef) ==
    [est EXCEPT !.fitted = TRUE, !.rows = rows, !.cols = cols, !.coef = coef,
                !.n_iter = 1]

\* The same fit when the solver stops at the cap (n_iter_ = max_iter): the
\* fitted instance is returned all the same and liblinear's wrapper calls
\* warnings.warn(..., ConvergenceWarning).
FittedAtCap(est, rows, cols, coef) ==
    [Fitted(est, rows, cols, coef) EXCEPT !.n_iter = MaxIter]

\* What a fit shows when it ends after n_iter iterations.
FitWarnings(est) ==
    IF est.n_iter >= MaxIter THEN Warned("ConvergenceWarning") ELSE {}

\* The coefficient vectors a fit over n columns may return.
CoefVectors(n) == [1..n -> CoefValues]

\* ------------------------------------------------------------- grid search
\* np.arange(start, stop, step): ceil((stop - start) / step) values from
\* start on, stop excluded.
Arange(start, stop, step) ==
    [g \in 1..((stop - start + step - 1) \div step) |-> start + (g - 1) * step]

\* grid = {"C": np.arange(0.01, 1, 0.01)}: ascending, in hundredths.
Grid == Arange(1, GridSize + 1, 1)

\* KFold: the first n % k folds hold n \div k + 1 samples, the others n \div k.
FoldSize(n, k, f) == (n \div k) + (IF f <= n % k THEN 1 ELSE 0)

\* Where fold f starts in the shuffled order: after the folds before it.
FoldStartZero(n, k, f) == 0
FoldStart(n, k, f) ==
    (f - 1) * (n \div k) + (IF f - 1 <= n % k THEN f - 1 ELSE n % k)

\* KFold(n_splits=k, shuffle=True).split over n samples, given the shuffled
\* order perm: fold f holds out the positions perm[start:start + size] and
\* trains on all the others.
KFoldSplit(perm, n, k, r, f) ==
    LET test == {perm[i] : i \in (FoldStart(n, k, f) + 1)..
                                  (FoldStart(n, k, f) + FoldSize(n, k, f))}
    IN [repeat |-> r, fold |-> f, train |-> (1..n) \ test, test |-> test]

\* RepeatedKFold(n_splits=k, n_repeats=Len(stream), random_state=321).split:
\* one KFold per repeat, each with the next shuffle of the seeded generator.
RepeatedKFoldSplits(stream, n, k) ==
    [s \in 1..(k * Len(stream)) |->
        KFoldSplit(stream[((s - 1) \div k) + 1], n, k,
                   ((s - 1) \div k) + 1, ((s - 1) % k) + 1)]

\* cross_validation.get_n_splits(): n_splits * n_repeats.
TotalSplits == NSplits * Len(cvStream)

\* product(candidate_params, cv.split(X, y)): candidate-major task order.
NTasks == GridSize * TotalSplits
CandidateOf(t) == ((t - 1) \div TotalSplits) + 1
SplitOf(t) == ((t - 1) % TotalSplits) + 1
TasksOf(g) == {t \in 1..NTasks : CandidateOf(t) = g}

\* The clone of the base estimator a task fits, with the candidate's C set.
NewTask(t) == [st |-> "pending", C |-> Grid[CandidateOf(t)], split |-> SplitOf(t),
               score |-> 0, failed |-> FALSE]

Running(out) == {t \in 1..Len(out) : out[t].st = "running"}
Pending(out) == {t \in 1..Len(out) : out[t].st = "pending"}

\* mean_test_score of a candidate: the average of its fold scores, as the
\* fraction <<sum, number of folds>>.
\* A fold whose fit raised scores error_score=np.nan, and so does the mean.
NaN == <<0, 0>>

MeanTestScore(out, g) ==
    IF \E t \in TasksOf(g) : out[t].failed THEN NaN
    ELSE <<Sum([t \in TasksOf(g) |-> out[t].score], TasksOf(g)), TotalSplits>>

MeanTestScores(out) == [g \in 1..GridSize |-> MeanTestScore(out, g)]

\* a < b for fractions with positive denominators.
Less(a, b) == a[1] * b[2] < b[1] * a[2]

\* Before ranking, a NaN mean is replaced by the least real mean minus one;
\* when every mean is NaN all candidates tie.
NanToNum(means) ==
    LET real == {i \in 1..Len(means) : means[i] # NaN}
        lo == CHOOSE i \in real : \A j \in real : ~Less(means[j], means[i])
    IN [i \in 1..Len(means) |->
           IF means[i] = NaN /\ real # {}
           THEN <<means[lo][1] - means[lo][2], means[lo][2]>>
           ELSE means[i]]

\* rank_test_score = rankdata(-mean_test_score, method="min").
RankTestScore(means, i) == 1 + Cardinality({j \in 1..Len(means) : Less(means[i], means[j])})

\* best_index_ = rank_test_score.argmin(): the first index of the least rank.
BestIndexWorst(means) ==
    Min({i \in 1..Len(means) :
            \A j \in 1..Len(means) : RankTestScore(means, i) >= RankTestScore(means, j)})
BestIndexLast(means) ==
    CHOOSE i \in 1..Len(means) :
        /\ \A j \in 1..Len(means) : RankTestScore(means, i) <= RankTestScore(means, j)
        /\ \A j \in (i + 1)..Len(means) : RankTestScore(means, j) > RankTestScore(means, i)
BestIndex(means) ==
    Min({i \in 1..Len(means) :
            \A j \in 1..Len(means) : RankTestScore(means, i) <= RankTestScore(means, j)})

\* Cells 430ddbd3, f24308c4 and the entry of search.fit(x_train, y_train):
\* the base estimator is built without C, the search keeps a reference to it,
\* n_jobs=-1 resolves to the number of cores, one task per (candidate, fold).
SearchStart ==
    /\ pc = "search"
    /\ search.n_jobs = 0
    /\ estimators' = Append(estimators, NewEstimator(DefaultC))
    /\ lasso_model' = Len(estimators) + 1
    /\ \E cores \in 1..MaxWorkers :
          search' = [estimator |-> Len(estimators) + 1, n_jobs |-> cores,
                     cv |-> RepeatedKFoldSplits(cvStream, Len(x_train), NSplits),
                     out |-> [t \in 1..NTasks |-> NewTask(t)]]
    /\ Enter("search")
    /\ UNCHANGED <<pc, run, provider, rngStream, cvStream, Y, x_train, x_test, y_train, y_test,
                   results, feature_importance, selected_, x_train_selected,
                   x_test_selected, train_accuracy, test_accuracy, finished, prev,
                   predicted_y, output>>

\* A free worker takes the next task in submission order.
Dispatch ==
    /\ pc = "search"
    /\ Pending(search.out) # {}
    /\ Cardinality(Running(search.out)) < search.n_jobs
    /\ search' = [search EXCEPT !.out[Min(Pending(search.out))].st = "running"]
    /\ UNCHANGED <<pc, run, provider, rngStream, cvStream, Y, x_train, x_test, y_train, y_test,
                   estimators, lasso_model, results, feature_importance, selected_,
                   x_train_selected, x_test_selected, train_accuracy, test_accuracy,
                   started, finished, prev,
                   predicted_y, output>>

\* One estimator shared by the workers: a finished fit overwrites the score of
\* every evaluation that is still running on it.
FitAndScoreShared(out, t, s) ==
    [u \in 1..Len(out) |->
        IF u = t THEN [out[u] EXCEPT !.st = "done", !.score = s]
        ELSE IF out[u].st = "running" THEN [out[u] EXCEPT !.score = s]
        ELSE out[u]]

\* _fit_and_score of task t: the task's own clone is fitted on the fold's
\* training rows and scored on the held-out rows; the result is the task's.
FitAndScore(out, t, s) == [out EXCEPT ![t].st = "done", ![t].score = s]

\* _fit_and_score of task t when the fit raises: error_score is left at its
\* default np.nan, so the exception is caught and the task's score is NaN.
FitFails(out, t) == [out EXCEPT ![t].st = "done", ![t].failed = TRUE]

\* A worker finishes its fit and scores the held-out fold; the score lands in
\* the task's own slot of the result list.
Complete ==
    /\ pc = "search"
    /\ \E t \in Running(search.out), s \in FoldScores :
          search' = [search EXCEPT !.out = FitAndScore(search.out, t, s)]
    /\ UNCHANGED <<pc, run, provider, rngStream, cvStream, Y, x_train, x_test, y_train, y_test,
                   estimators, lasso_model, results, feature_importance, selected_,
                   x_train_selected, x_test_selected, train_accuracy, test_accuracy,
                   started, finished, prev,
                   predicted_y, output>>

\* What search.fit returns once every task is done: the mean score of every
\* candidate, the best candidate, its mean score, and best_estimator_, a
\* clone refitted with the best C (refit=True; its coefficients are read by
\* no cell and are not carried).
SearchResults(out, clone) ==
    LET means == MeanTestScores(out)
        best == BestIndex(NanToNum(means))
    IN [fitted |-> TRUE, mean_test_score |-> means, best_index |-> best,
        best_params |-> Grid[best], best_score |-> means[best],
        best_estimator |-> clone]

\* A worker's fit raises (the library rejects the fold's data).
CompleteFails ==
    /\ pc = "search"
    /\ \E t \in Running(search.out) :
          search' = [search EXCEPT !.out = FitFails(search.out, t)]
    /\ UNCHANGED <<pc, run, provider, rngStream, cvStream, Y, x_train, x_test, y_train,
                   y_test, estimators, lasso_model, results, feature_importance,
                   selected_, x_train_selected, x_test_selected, predicted_y,
                   train_accuracy, test_accuracy, output, started, finished, prev>>

\* _warn_or_raise_about_fit_failures: some fits failed, or all of them.
SomeFitFailed(out) == \E t \in 1..Len(out) : out[t].failed
AllFitsFailed(out) == \A t \in 1..Len(out) : out[t].failed

\* Every fit of the search raised: search.fit raises ValueError, nothing
\* catches it, the run ends in the search cell with the traceback shown.
SearchFails ==
    /\ pc = "search"
    /\ search.n_jobs > 0
    /\ \A t \in 1..Len(search.out) : search.out[t].st = "done"
    /\ AllFitsFailed(search.out)
    /\ Show({"ValueError"})
    /\ pc' = "failed"
    /\ UNCHANGED <<run, provider, rngStream, cvStream, Y, x_train, x_test, y_train,
                   y_test, estimators, lasso_model, search, results,
                   feature_importance, selected_, x_train_selected, x_test_selected,
                   predicted_y, train_accuracy, test_accuracy, started, finished, prev>>

\* refit=True without a clone: the best C is set on the base estimator
\* itself and the base estimator is fitted on the whole training table.
RefitBestInPlace(ests, base, c, rows) ==
    Append([ests EXCEPT ![base] = Fitted([@ EXCEPT !.C = c], rows, FeatureNames, <<>>)],
           Fitted(NewEstimator(c), rows, FeatureNames, <<>>))

\* refit=True: best_estimator_ = clone(base).set_params(C=best C), fitted on
\* the whole training table; the base estimator is not touched.
RefitBest(ests, base, c, rows) ==
    Append(ests, Fitted(NewEstimator(c), rows, FeatureNames, <<>>))

SearchFinish ==
    /\ pc = "search"
    /\ search.n_jobs > 0
    /\ \A t \in 1..Len(search.out) : search.out[t].st = "done"
    /\ ~AllFitsFailed(search.out)
    /\ Show(IF SomeFitFailed(search.out) THEN Warned("FitFailedWarning") ELSE {})
    /\ results' = SearchResults(search.out, Len(estimators) + 1)
    /\ estimators' = RefitBest(estimators, search.estimator, results'.best_params,
                               x_train)
    /\ search' = [search EXCEPT !.n_jobs = 0, !.cv = <<>>, !.out = <<>>]
    /\ Leave("search")
    /\ pc' = NextStage("search")
    /\ UNCHANGED <<run, provider, rngStream, cvStream, Y, x_train, x_test, y_train, y_test,
                   lasso_model, feature_importance, selected_, x_train_selected,
                   x_test_selected, train_accuracy, test_accuracy, started, prev,
                   predicted_y>>

\* -------------------------------------------------------- feature selection
\* zip(a, b): pairs up to the shorter of the two.
ZipLongest(a, b) ==
    [k \in 1..(IF Len(a) <= Len(b) THEN Len(b) ELSE Len(a)) |->
        <<IF k <= Len(a) THEN a[k] ELSE TargetName, IF k <= Len(b) THEN b[k] ELSE 1>>]
Zip(a, b) ==
    [k \in 1..(IF Len(a) <= Len(b) THEN Len(a) ELSE Len(b)) |-> <<a[k], b[k]>>]

\* The test of the list comprehension: v != 0.
IsSelectedPositive(v) == v > 0
IsSelected(v) == v # 0

\* [k for k, v in feature_importance.items() if v != 0], in insertion order.
SelectedNames(items) ==
    LET kept == SelectSeq(items, LAMBDA kv : IsSelected(kv[2]))
    IN [k \in 1..Len(kept) |-> kept[k][1]]

\* table[names]: the rows of the table restricted to the named columns.
RestrictDropsRow(rows, names) == [rows |-> SubSeq(rows, 2, Len(rows)), cols |-> names]
Restrict(rows, names) == [rows |-> rows, cols |-> names]

\* Second statement of cell dbdbe287 and cells a29b887f, 0a1a78e3, c4fef1db:
\* lasso_model.fit(x_train, y_train) on the instance as it was built, then
\* feature_importance, selected_ and the two restricted tables.
SelectCells(capped, shown) ==
    /\ pc = "select"
    /\ \E coef \in CoefVectors(NFeatures) :
          /\ estimators' = [estimators EXCEPT
                               ![lasso_model] =
                                   IF capped THEN FittedAtCap(@, x_train, FeatureNames, coef)
                                   ELSE Fitted(@, x_train, FeatureNames, coef)]
          /\ feature_importance' = Zip(DataColumns, coef)
    /\ selected_' = SelectedNames(feature_importance')
    /\ x_train_selected' = Restrict(x_train, selected_')
    /\ x_test_selected' = Restrict(x_test, selected_')
    /\ Show(FitWarnings(estimators'[lasso_model]) \cup shown)
    /\ Enter("select") /\ Leave("select")
    /\ pc' = NextStage("select")
    /\ UNCHANGED <<run, provider, rngStream, cvStream, Y, x_train, x_test, y_train, y_test,
                   lasso_model, search, results, train_accuracy, test_accuracy, prev,
                   predicted_y>>

\* Cells 80c262ca, a29b887f, 0a1a78e3: the two prints of the search result,
\* the dictionary as the cell's value, the print of the selected names.
SelectShown == {"best_score_", "best_params_", "feature_importance", "selected_"}

\* The solver converges below the cap.
Select == SelectCells(FALSE, SelectShown)

\* The solver stops at the cap.
SelectNotConverged == SelectCells(TRUE, SelectShown)

\* lasso_breast_cancer.ipynb, cells 80c262ca, a29b887f: no cell prints the
\* selected names (the list is built in place inside cell c4fef1db, twice;
\* selected_ stands for its value).
SelectShownIpynb == {"best_score_", "best_params_", "feature_importance"}

SelectIpynb == SelectCells(FALSE, SelectShownIpynb)

\* ------------------------------------------------------------------- refit
\* Cell 88390d23: the C given to the new instance.
RefitCDefault(res) == DefaultC
RefitC(res) == res.best_params

\* Cells 88390d23, 28d9a17e: a new instance with the C of the search, bound to
\* the name lasso_model and fitted on the selected columns of the training set.
RefitCells(capped) ==
    /\ pc = "refit"
    /\ selected_ # <<>>
    /\ lasso_model' = Len(estimators) + 1
    /\ \E coef \in CoefVectors(Len(x_train_selected.cols)) :
          estimators' = Append(estimators,
                               IF capped
                               THEN FittedAtCap(NewEstimator(RefitC(results)),
                                                x_train_selected.rows,
                                                x_train_selected.cols, coef)
                               ELSE Fitted(NewEstimator(RefitC(results)),
                                           x_train_selected.rows,
                                           x_train_selected.cols, coef))
    /\ Show(FitWarnings(estimators'[lasso_model']))
    /\ Enter("refit") /\ Leave("refit")
    /\ pc' = NextStage("refit")
    /\ UNCHANGED <<run, provider, rngStream, cvStream, Y, x_train, x_test, y_train, y_test,
                   search, results, feature_importance, selected_, x_train_selected,
                   x_test_selected, train_accuracy, test_accuracy, prev,
                   predicted_y>>

\* The solver converges below the cap.
Refit == RefitCells(FALSE)

\* The solver stops at the cap.
RefitNotConverged == RefitCells(TRUE)

\* Cell 28d9a17e executed once more: the same instance, with the same C, is
\* fitted again on the same table; the solver draws from the process-global
\* generator again.
RefitAgain ==
    /\ pc = "evaluate"
    /\ \E coef \in CoefVectors(Len(x_train_selected.cols)) :
          estimators' = [estimators EXCEPT
                            ![lasso_model] = Fitted(@, x_train_selected.rows,
                                                    x_train_selected.cols, coef)]
    /\ Show(FitWarnings(estimators'[lasso_model]))
    /\ UNCHANGED <<pc, run, provider, rngStream, cvStream, Y, x_train, x_test, y_train,
                   y_test, lasso_model, search, results, feature_importance,
                   selected_, x_train_selected, x_test_selected, predicted_y,
                   train_accuracy, test_accuracy, started, finished, prev>>

\* The same cells when no coefficient was nonzero: fit on a table without
\* columns raises, nothing catches it, the run ends there.
RefitFails ==
    /\ pc = "refit"
    /\ selected_ = <<>>
    /\ lasso_model' = Len(estimators) + 1
    /\ estimators' = Append(estimators, NewEstimator(RefitC(results)))
    /\ Enter("refit")
    /\ Show({"ValueError"})
    /\ pc' = "failed"
    /\ UNCHANGED <<run, provider, rngStream, cvStream, Y, x_train, x_test, y_train, y_test,
                   search, results, feature_importance, selected_, x_train_selected,
                   x_test_selected, train_accuracy, test_accuracy, finished, prev,
                   predicted_y>>

\* ---------------------------------------------------------------- evaluate
\* accuracy_score(y_pred, y_true): matching positions over all positions.
AccuracyScoreMismatches(y_pred, y_true) ==
    <<Cardinality({k \in 1..Len(y_true) : y_pred[k] # y_true[k].label}), Len(y_true)>>
AccuracyScore(y_pred, y_true) ==
    <<Cardinality({k \in 1..Len(y_true) : y_pred[k] = y_true[k].label}), Len(y_true)>>

\* Cells 09a6c425, 0cc373f2: predictions of the instance bound to lasso_model
\* on the two restricted tables, scored against the partitions' labels.
Evaluate ==
    /\ pc = "evaluate"
    /\ \E pred_train \in [1..Len(x_train_selected.rows) -> Labels],
          pred_test \in [1..Len(x_test_selected.rows) -> Labels] :
          /\ predicted_y' = [model |-> lasso_model, train |-> pred_train,
                              test |-> pred_test]
    /\ train_accuracy' = AccuracyScore(predicted_y'.train, y_train)
    /\ test_accuracy' = AccuracyScore(predicted_y'.test, y_test)
    /\ Show({"train_accuracy", "test_accuracy"})
    /\ Enter("evaluate") /\ Leave("evaluate")
    /\ pc' = NextStage("evaluate")
    /\ UNCHANGED <<run, provider, rngStream, cvStream, Y, x_train, x_test, y_train, y_test,
                   estimators, lasso_model, search, results, feature_importance,
                   selected_, x_train_selected, x_test_selected, prev>>

\* lasso_breast_cancer.ipynb, cells 0cc373f2, a70134e5: predict on the test
\* table only, shown as the cell's value, then lasso_model.score on the test
\* table (the accuracy of the same predictions); nothing is computed on the
\* training table.
EvaluateIpynb ==
    /\ pc = "evaluate"
    /\ \E pred_test \in [1..Len(x_test_selected.rows) -> Labels] :
          predicted_y' = [model |-> lasso_model, train |-> <<>>, test |-> pred_test]
    /\ test_accuracy' = AccuracyScore(predicted_y'.test, y_test)
    /\ Show({"predicted_y", "test_accuracy"})
    /\ Enter("evaluate") /\ Leave("evaluate")
    /\ pc' = NextStage("evaluate")
    /\ UNCHANGED <<run, provider, rngStream, cvStream, Y, x_train, x_test, y_train,
                   y_test, estimators, lasso_model, search, results,
                   feature_importance, selected_, x_train_selected, x_test_selected,
                   train_accuracy, prev>>

\* ------------------------------------------------------------ another run
\* The coefficients of the full-feature fit, once it was made.
FullFitCoef ==
    IF search.estimator = 0 THEN <<>> ELSE estimators[search.estimator].coef

Snapshot ==
    [run |-> run, pc |-> pc, Y |-> Y, x_train |-> x_train, x_test |-> x_test,
     best_params |-> results.best_params, best_score |-> results.best_score,
     coef |-> FullFitCoef,
     train_accuracy |-> train_accuracy, test_accuracy |-> test_accuracy]

\* The kernel is restarted and the notebook is run again from its first cell:
\* every name is unbound; the provider and the seeds are what they were.
Rerun ==
    /\ pc # "load"
    /\ run < MaxRuns
    /\ prev' = Snapshot
    /\ run' = run + 1
    /\ pc' = "load"
    /\ Y' = <<>>
    /\ x_train' = <<>> /\ x_test' = <<>>
    /\ y_train' = <<>> /\ y_test' = <<>>
    /\ estimators' = <<>>
    /\ lasso_model' = 0
    /\ search' = NoSearch
    /\ results' = NoResults
    /\ feature_importance' = <<>>
    /\ selected_' = <<>>
    /\ x_train_selected' = Restrict(<<>>, <<>>)
    /\ x_test_selected' = Restrict(<<>>, <<>>)
    /\ predicted_y' = NoPredictions
    /\ train_accuracy' = NoAccuracy /\ test_accuracy' = NoAccuracy
    /\ output' = {}
    /\ started' = [s \in Range(Stages) |-> 0]
    /\ finished' = [s \in Range(Stages) |-> 0]
    /\ UNCHANGED <<provider, rngStream, cvStream>>

\* ----------------------------------------------------------- specifications
Next ==
    \/ Load
    \/ Split
    \/ SearchStart
    \/ Dispatch
    \/ Complete
    \/ SearchFinish
    \/ Select
    \/ Refit
    \/ RefitFails
    \/ Evaluate

Spec == Init /\ [][Next]_vars

NextRerun == Next \/ Rerun

SpecRerun == Init /\ [][NextRerun]_vars

\* The run when the library may reject a fold's data.
NextFail == Next \/ CompleteFails \/ SearchFails

SpecFail == Init /\ [][NextFail]_vars

\* The run when a fit of the notebook's own process may stop at the cap.
NextCap == Next \/ SelectNotConverged \/ RefitNotConverged

SpecCap == Init /\ [][NextCap]_vars

\* The cells of lasso_breast_cancer.ipynb.
NextIpynb ==
    \/ Load
    \/ Split
    \/ SearchStart
    \/ Dispatch
    \/ Complete
    \/ SearchFinish
    \/ SelectIpynb
    \/ Refit
    \/ RefitFails
    \/ EvaluateIpynb

SpecIpynb == Init /\ [][NextIpynb]_vars

\* The run when the refit cell may be executed again.
NextRefit == Next \/ RefitAgain

SpecRefit == Init /\ [][NextRefit]_vars

\* The cells up to the point where search.fit has drawn its splits.
NextCV == Load \/ Split \/ SearchStart

SpecCV == InitCV /\ [][NextCV]_vars

\* The stages before evaluate, run again on a table with other test labels.
NextTrain ==
    \/ Load
    \/ Split
    \/ SearchStart
    \/ Dispatch
    \/ Complete
    \/ SearchFinish
    \/ Select
    \/ Refit
    \/ RefitFails
    \/ Rerun

SpecTest == InitTest /\ [][NextTrain]_vars

NextSplit == Load \/ Split \/ Rerun

SpecSplit == InitSplit /\ [][NextSplit]_vars

\* ------------------------------------------------------------------ claims
StageDone(s) == finished[s] = 1

\* The instance whose coefficients feature_importance was read from.
FullFitModel == estimators[search.estimator]

\* C1: the full-feature fit that drives feature selection is made with the C
\* the grid search selected.
C1_FullFitUsesSelectedC ==
    StageDone("select") => FullFitModel.C = results.best_params

\* C2: the six stages run in the order load, split, search, select, refit,
\* evaluate; each is entered at most once and only after its predecessor was
\* completed, a completed run has completed each exactly once, and after a
\* failure no later stage is entered.
C2_StrictStageOrder ==
    /\ \A i \in 1..Len(Stages) :
          /\ started[Stages[i]] <= 1
          /\ finished[Stages[i]] <= started[Stages[i]]
          /\ (i > 1 /\ started[Stages[i]] = 1) => finished[Stages[i - 1]] = 1
    /\ pc = "done" => \A i \in 1..Len(Stages) : finished[Stages[i]] = 1
    /\ pc = "failed" =>
          \E i \in 1..Len(Stages) :
              /\ started[Stages[i]] = 1 /\ finished[Stages[i]] = 0
              /\ \A j \in (i + 1)..Len(Stages) : started[Stages[j]] = 0
    /\ pc \in Range(Stages) => finished[pc] = 0

C2_Witness ==
    pc = "done" /\ \A i \in 1..Len(Stages) : started[Stages[i]] = 1 /\ finished[Stages[i]] = 1

\* C3: two complete runs on the same dataset with the same seeds report the
\* same C, the same full-feature coefficients and the same two accuracies.
C3_RunsAgree ==
    (pc = "done" /\ prev.pc = "done" /\ Y = prev.Y) =>
        /\ results.best_params = prev.best_params
        /\ FullFitCoef = prev.coef
        /\ train_accuracy = prev.train_accuracy
        /\ test_accuracy = prev.test_accuracy

\* C4: a feature name is selected if and only if its coefficient in the
\* full-feature fit is not exactly zero, however small it is.
C4_SelectedIffNonzero ==
    StageDone("select") =>
        /\ \A j \in 1..NFeatures :
              (FeatureNames[j] \in Range(selected_)) <=> (FullFitModel.coef[j] # 0)
        /\ Range(selected_) \subseteq Range(FeatureNames)

C4_Witness ==
    /\ StageDone("select")
    /\ \E j \in 1..NFeatures : FullFitModel.coef[j] = -1 /\ FeatureNames[j] \in Range(selected_)
    /\ \E j \in 1..NFeatures : FullFitModel.coef[j] = 0 /\ FeatureNames[j] \notin Range(selected_)

\* The average of the fold scores of candidate g, from the result list.
FoldAverage(out, g) ==
    <<Sum([t \in 1..Len(out) |-> IF CandidateOf(t) = g THEN out[t].score ELSE 0],
          1..Len(out)),
      TotalSplits>>

\* C5: when search.fit returns, no grid value has a greater average fold score
\* than the selected one, and best_score_ is the selected value's average.
C5_BestIsMaximum ==
    [][(~results.fitted /\ results'.fitted) =>
          /\ \A g \in 1..GridSize :
                ~Less(results'.best_score, FoldAverage(search.out, g))
          /\ \E g \in 1..GridSize :
                /\ Grid[g] = results'.best_params
                /\ results'.best_score = FoldAverage(search.out, g)]_vars

C5_Witness ==
    /\ results.fitted
    /\ results.best_params = Grid[GridSize]
    /\ \A g \in 1..(GridSize - 1) : Less(results.mean_test_score[g], results.best_score)

\* C6: among grid values that share the best average score, the search
\* selects the first of the ascending grid, the smallest C.
C6_TieTakesFirst ==
    [][(~results.fitted /\ results'.fitted) =>
          \A g \in 1..GridSize :
              (/\ \A h \in 1..GridSize :
                     ~Less(FoldAverage(search.out, g), FoldAverage(search.out, h)))
              => results'.best_params <= Grid[g]]_vars

C6_Witness ==
    /\ results.fitted
    /\ results.best_index = 1
    /\ \E g \in 2..GridSize : results.mean_test_score[g] = results.best_score

\* C7: the refit is made on a new instance, on exactly the selected columns
\* of the training rows, with the C the search returned, a grid value.
C7_RefitNewInstance ==
    StageDone("refit") =>
        /\ lasso_model # search.estimator
        /\ lasso_model # results.best_estimator
        /\ estimators[lasso_model].fitted
        /\ estimators[lasso_model].cols = selected_
        /\ estimators[lasso_model].rows = x_train
        /\ Len(estimators[lasso_model].coef) = Len(selected_)
        /\ estimators[lasso_model].C = results.best_params
        /\ estimators[lasso_model].C \in Range(Grid)

C7_Witness ==
    /\ StageDone("refit")
    /\ Len(selected_) < NFeatures
    /\ estimators[lasso_model].C = Grid[GridSize]

\* C8: the split puts every sample in exactly one of the two partitions, the
\* test partition holds ceil(20%) of the samples (114 of 569, leaving 455),
\* and every row keeps its own label.
C8_SplitIsPartition ==
    StageDone("split") =>
        /\ Range(x_train) \cap Range(x_test) = {}
        /\ Range(x_train) \cup Range(x_test) = Range(X)
        /\ Len(x_train) + Len(x_test) = NSamples
        /\ 100 * Len(x_test) >= TestPercent * NSamples
        /\ 100 * (Len(x_test) - 1) < TestPercent * NSamples
        /\ NTest(569) = 114 /\ NTrain(569) = 455
        /\ Len(y_train) = Len(x_train) /\ Len(y_test) = Len(x_test)
        /\ \A k \in 1..Len(x_train) :
              y_train[k].row = x_train[k] /\ y_train[k].label = Y[x_train[k]]
        /\ \A k \in 1..Len(x_test) :
              y_test[k].row = x_test[k] /\ y_test[k].label = Y[x_test[k]]

C8_Witness ==
    /\ StageDone("split")
    /\ \E k, m \in 1..Len(y_train) : y_train[k].label # y_train[m].label
    /\ x_test # <<>>

\* C9: a second run with the same seed splits into the same row sets as the
\* first, whatever the labels of the two runs are.
C9_SplitRepeatable ==
    (StageDone("split") /\ prev.x_train # <<>>) =>
        /\ x_train = prev.x_train
        /\ x_test = prev.x_test

C9_Witness ==
    /\ StageDone("split")
    /\ prev.x_train # <<>>
    /\ Y # prev.Y
    /\ x_train = prev.x_train

\* C10: the selected C and the best score of the grid search do not depend on
\* how many workers ran the evaluations nor on the order they completed in.
C10_SearchScheduleIndependent ==
    (results.fitted /\ prev.best_params # 0 /\ Y = prev.Y) =>
        /\ results.best_params = prev.best_params
        /\ results.best_score = prev.best_score

C12_FailureIsFatal ==
    /\ results.fitted => \A g \in 1..GridSize : results.mean_test_score[g] # NaN
    /\ pc = "failed" =>
          \E i \in 1..Len(Stages) :
              /\ started[Stages[i]] = 1 /\ finished[Stages[i]] = 0
              /\ \A j \in (i + 1)..Len(Stages) : started[Stages[j]] = 0
              /\ Stages[i] \in output

\* C13: a fit that stops at the iteration cap does not end the run, and the
\* user is shown a warning about it.
C13_NonConvergenceSurfaced ==
    \A e \in 1..Len(estimators) :
        (estimators[e].fitted /\ estimators[e].n_iter >= MaxIter) =>
            /\ pc # "failed"
            /\ "ConvergenceWarning" \in output

\* C15: each reported accuracy is the number of rows of its partition whose
\* predicted label is the row's true label, over the number of rows of the
\* partition; the predictions are those of the refitted model on the selected
\* columns; the value lies between 0 and 1.
C15_AccuracyIsFractionCorrect ==
    StageDone("evaluate") =>
        /\ {"train_accuracy", "test_accuracy"} \subseteq output
        /\ train_accuracy[1] =
              Cardinality({k \in 1..Len(x_train) : predicted_y.train[k] = Y[x_train[k]]})
        /\ test_accuracy[1] =
              Cardinality({k \in 1..Len(x_test) : predicted_y.test[k] = Y[x_test[k]]})
        /\ train_accuracy[2] = Len(x_train) /\ test_accuracy[2] = Len(x_test)
        /\ Len(predicted_y.train) = Len(x_train) /\ Len(predicted_y.test) = Len(x_test)
        /\ \A a \in {train_accuracy, test_accuracy} : a[2] > 0 /\ 0 <= a[1] /\ a[1] <= a[2]
        /\ predicted_y.model # search.estimator
        /\ estimators[predicted_y.model].fitted
        /\ estimators[predicted_y.model].C = results.best_params
        /\ estimators[predicted_y.model].cols = selected_
        /\ x_train_selected.cols = selected_ /\ x_test_selected.cols = selected_
        /\ x_train_selected.rows = x_train /\ x_test_selected.rows = x_test

C15_Witness ==
    /\ StageDone("evaluate")
    /\ train_accuracy[1] > 0 /\ train_accuracy[1] < train_accuracy[2]
    /\ test_accuracy[1] = test_accuracy[2]
    /\ Len(selected_) < NFeatures

\* C17: a completed run has shown the selected C, the cross-validated score,
\* the feature-to-coefficient dictionary, the list of selected names, the
\* training accuracy and the test accuracy.
C17_CompletedRunShowsAll ==
    pc = "done" =>
        {"best_params_", "best_score_", "feature_importance", "selected_",
         "train_accuracy", "test_accuracy"} \subseteq output

\* C18: fitting the reduced model again on the same selected-column training
\* table with the same settings returns the same coefficient vector.
C18_RefitRepeatable ==
    [][(/\ StageDone("refit") /\ lasso_model' = lasso_model
        /\ estimators[lasso_model].fitted /\ estimators'[lasso_model].fitted
        /\ estimators'[lasso_model].C = estimators[lasso_model].C
        /\ estimators'[lasso_model].rows = estimators[lasso_model].rows
        /\ estimators'[lasso_model].cols = estimators[lasso_model].cols
        /\ y_train' = y_train)
       => estimators'[lasso_model].coef = estimators[lasso_model].coef]_vars

SplitsOfRepeat(r) == {s \in 1..Len(search.cv) : search.cv[s].repeat = r}
TrainPositions == 1..Len(x_train)

\* C20: the grid np.arange(0.01, 1, 0.01) has exactly 99 values, 0.01 to 0.99,
\* 1.0 excluded; every grid value is evaluated once on each of the
\* n_splits * n_repeats splits; within one repeat the held-out portions are
\* pairwise disjoint and hold every training sample exactly once; the
\* training portion of a split is everything but its held-out portion.
C20_GridAndFolds ==
    /\ Len(Arange(1, 100, 1)) = 99
    /\ Arange(1, 100, 1)[1] = 1 /\ Arange(1, 100, 1)[99] = 99
    /\ Len(Grid) = GridSize
    /\ \A g \in 1..GridSize : Grid[g] = g
    /\ FoldStart(455, 10, 1) = 0
    /\ \A f \in 1..9 :
          FoldStart(455, 10, f) + FoldSize(455, 10, f) = FoldStart(455, 10, f + 1)
    /\ FoldStart(455, 10, 10) + FoldSize(455, 10, 10) = 455
    /\ (pc = "search" /\ search.n_jobs > 0) =>
          /\ Len(search.cv) = NSplits * NRepeats
          /\ Len(search.out) = GridSize * NSplits * NRepeats
          /\ \A g \in 1..GridSize :
                /\ Cardinality(TasksOf(g)) = NSplits * NRepeats
                /\ \A t \in TasksOf(g) : search.out[t].C = Grid[g]
                /\ \A s \in 1..Len(search.cv) :
                      Cardinality({t \in TasksOf(g) : search.out[t].split = s}) = 1
          /\ \A r \in 1..NRepeats :
                /\ Cardinality(SplitsOfRepeat(r)) = NSplits
                /\ \A s, u \in SplitsOfRepeat(r) :
                      s # u => search.cv[s].test \cap search.cv[u].test = {}
                /\ \A i \in TrainPositions :
                      Cardinality({s \in SplitsOfRepeat(r) : i \in search.cv[s].test}) = 1
          /\ \A s \in 1..Len(search.cv) :
                /\ search.cv[s].test # {}
                /\ search.cv[s].test \subseteq TrainPositions
                /\ search.cv[s].train \cap search.cv[s].test = {}
                /\ search.cv[s].train \cup search.cv[s].test = TrainPositions

C20_Witness ==
    /\ pc = "search" /\ search.n_jobs > 0
    /\ \E s, u \in 1..Len(search.cv) :
          /\ search.cv[s].repeat # search.cv[u].repeat
          /\ search.cv[s].fold = search.cv[u].fold
          /\ search.cv[s].test # search.cv[u].test
    /\ \E s, u \in 1..Len(search.cv) :
          /\ search.cv[s].repeat = search.cv[u].repeat
          /\ search.cv[s].fold # search.cv[u].fold

\* C21: the grid search leaves the base estimator untouched: from the moment
\* it is built until the cell after search.fit fits it, the instance bound to
\* lasso_model is unfitted, holds no coefficients and keeps the C it was
\* built with, whatever C the search selected; best_estimator_ is another
\* instance.
C21_BaseEstimatorUntouched ==
    (search.estimator # 0 /\ pc \in {"search", "select"}) =>
        /\ lasso_model = search.estimator
        /\ ~estimators[search.estimator].fitted
        /\ estimators[search.estimator].coef = <<>>
        /\ estimators[search.estimator].n_iter = 0
        /\ estimators[search.estimator].C = DefaultC
        /\ results.fitted =>
              /\ results.best_estimator # search.estimator
              /\ estimators[results.best_estimator].fitted
              /\ estimators[results.best_estimator].C = results.best_params

C21_Witness ==
    /\ pc = "select"
    /\ results.fitted
    /\ results.best_params = Grid[GridSize]
    /\ estimators[results.best_estimator].C # estimators[search.estimator].C
    /\ ~estimators[lasso_model].fitted

\* C22: the test partition is read by no stage before evaluate, so two runs
\* whose tables differ only in the labels of the test rows select the same C
\* and the same features.
C22_TestPartitionNotUsed ==
    (/\ StageDone("select") /\ prev.coef # <<>>
     /\ x_train = prev.x_train /\ x_test = prev.x_test
     /\ \A i \in Range(x_train) : Y[i] = prev.Y[i]
     /\ \E i \in Range(x_test) : Y[i] # prev.Y[i])
    => /\ results.best_params = prev.best_params
       /\ selected_ = SelectedNames(Zip(DataColumns, prev.coef))

\* C23: feature_importance pairs the i-th feature column with the i-th
\* coefficient of the full-feature fit, for every feature: data.columns has
\* one name more than there are coefficients, "target" at its end, and zip
\* stops before it, so "target" is no key of feature_importance and is never
\* selected; the selected names keep the column order, and the training and
\* the test table are restricted to the same columns in the same order.
C23_TargetNeverPaired ==
    /\ Len(DataColumns) = NFeatures + 1
    /\ DataColumns[NFeatures + 1] = TargetName
    /\ TargetName \notin Range(FeatureNames)
    /\ StageDone("select") =>
          /\ Len(FullFitModel.coef) = NFeatures
          /\ Len(feature_importance) = NFeatures
          /\ \A j \in 1..NFeatures :
                feature_importance[j] = <<FeatureNames[j], FullFitModel.coef[j]>>
          /\ \A k \in 1..Len(feature_importance) : feature_importance[k][1] # TargetName
          /\ TargetName \notin Range(selected_)
          /\ \A k, m \in 1..Len(selected_) : k < m => selected_[k] < selected_[m]
          /\ x_train_selected.cols = selected_
          /\ x_test_selected.cols = x_train_selected.cols

C23_Witness ==
    /\ StageDone("select")
    /\ \A j \in 1..NFeatures : FullFitModel.coef[j] # 0
    /\ selected_ = FeatureNames
    /\ x_test_selected.cols = FeatureNames

====
